---- MODULE Spec2Model ----
(***************************************************************************)
(* Model of the web crawler of src/src/crawler.py: the Crawler object      *)
(* (frontier _links, _visited, _articles, topology), its constructor, the  *)
(* loop of crawl() taken one iteration per step, and the link filter       *)
(* _clean_links.  Addresses are strings, modelled as sequences of          *)
(* one-character strings so that the substring and suffix tests of the     *)
(* filter are computed as Python computes them.                            *)
(***************************************************************************)
EXTENDS Integers, Sequences, FiniteSets, TLC

VARIABLES pc, root, max_depth, max_visits, strategy, web,
          links, visited, articles, topology,
          accepted, fetch_log, returns,
          f_visited, f_links, f_result,
          t_text, t_result

crawlerVars == <<root, max_depth, max_visits, strategy, web,
                 links, visited, articles, topology, accepted, fetch_log>>
filterVars == <<f_visited, f_links, f_result>>
textVars == <<t_text, t_result>>
harnessVars == <<filterVars, textVars>>
vars == <<pc, root, max_depth, max_visits, strategy, web,
          links, visited, articles, topology, accepted, fetch_log, returns,
          f_visited, f_links, f_result, t_text, t_result>>

\* ---------------------------------------------------------------- bounds
\* largest max_depth a run is configured with
DepthBound == 2
\* largest finite max_visits a run is configured with
VisitsBound == 3
\* how many times crawl() is called on one Crawler
CallsBound == 2
\* longest text given to remove_nonbreaking
TextBound == 4

\* ------------------------------------------------------- strings (chars)
HTTPS == <<"h","t","t","p","s">>
HTTP == <<"h","t","t","p">>
SCHEME_SEP == <<":","/","/">>
UNIPA_HOST == <<"w","w","w",".","u","n","i","p","a",".","i","t">>

\* the three literals of _clean_links
DOMAIN_PATTERN == SCHEME_SEP \o UNIPA_HOST
CONTENT_PATTERN == DOMAIN_PATTERN \o <<"/",".","c","o","n","t","e","n","t">>
PDF_SUFFIX == <<"p","d","f">>

\* "https://www.unipa.it/"  (the root of __main__)
Root == HTTPS \o SCHEME_SEP \o UNIPA_HOST \o <<"/">>
\* "https://www.unipa.it/b", ".../c", ".../d"
PageB == Root \o <<"b">>
PageC == Root \o <<"c">>
PageD == Root \o <<"d">>
\* "https://www.unipa.it/news/x.html"
NewsX == Root \o <<"n","e","w","s","/","x",".","h","t","m","l">>
\* "https://www.unipa.it/doc.pdf"
DocPdf == Root \o <<"d","o","c",".","p","d","f">>
\* "https://www.unipa.it/xpdf"  (no extension, ends in the letters pdf)
XPdf == Root \o <<"x","p","d","f">>
\* "https://www.unipa.it/.content/x"
ContentX == Root \o <<".","c","o","n","t","e","n","t","/","x">>
\* "https://other.org/x"
OtherX == HTTPS \o SCHEME_SEP \o <<"o","t","h","e","r",".","o","r","g","/","x">>
\* "https://www.unipa.it.evil.org/"  (another host whose name starts alike)
EvilHost == HTTPS \o SCHEME_SEP \o UNIPA_HOST \o <<".","e","v","i","l",".","o","r","g","/">>
\* "/b"  (a relative href)
Relative == <<"/","b">>
\* "httpp://www.unipa.it"  (misspelt scheme, test_fetch_page)
Misspelt == <<"h","t","t","p","p">> \o SCHEME_SEP \o UNIPA_HOST
\* ""
Empty == <<>>

Universe == {Root, PageB, PageC, PageD, NewsX, DocPdf, XPdf, ContentX,
             OtherX, EvilHost, Relative, Misspelt, Empty}

\* Python: pat in s
Contains(s, pat) ==
  \E i \in 1..(Len(s) - Len(pat) + 1) : SubSeq(s, i, i + Len(pat) - 1) = pat

\* Python: s.endswith(suf)
EndsWith(s, suf) ==
  /\ Len(s) >= Len(suf)
  /\ SubSeq(s, Len(s) - Len(suf) + 1, Len(s)) = suf

\* Python: s.startswith(pre)
StartsWith(s, pre) ==
  /\ Len(s) >= Len(pre)
  /\ SubSeq(s, 1, Len(pre)) = pre

\* --------------------------------------------------- remove_nonbreaking
\* the character U+00A0
NBSP == "nbsp"
TextChars == {NBSP, " ", "a"}

\* the pattern \xa0 without the +: every single character is a match
MatchLenOne(t) == IF t # <<>> /\ Head(t) = NBSP THEN 1 ELSE 0

\* the length of the greedy match of (\xa0)+ at the start of t
RECURSIVE MatchLen(_)
MatchLen(t) ==
  IF t # <<>> /\ Head(t) = NBSP THEN 1 + MatchLen(Tail(t)) ELSE 0

\* re.sub("(\xa0)+", " ", text): left to right, each match becomes " "
RECURSIVE RemoveNonbreaking(_)
RemoveNonbreaking(text) ==
  IF text = <<>> THEN <<>>
  ELSE IF MatchLen(text) > 0
    THEN <<" ">> \o RemoveNonbreaking(SubSeq(text, MatchLen(text) + 1, Len(text)))
    ELSE <<Head(text)>> \o RemoveNonbreaking(Tail(text))

\* ------------------------------------------------------------ the filter
\* _clean_links keeps addr iff this holds (the comprehension's condition)
KeepLink(addr) ==
  /\ Contains(addr, DOMAIN_PATTERN)
  /\ ~Contains(addr, CONTENT_PATTERN)
  /\ ~EndsWith(addr, PDF_SUFFIX)

\* a filter that forgets to subtract _visited
CleanLinksKeepVisited(vis, ls) == {addr \in ls : KeepLink(addr)}

\* _clean_links(_visited, links): set(kept) - _visited; the list it returns
\* has the elements of this set in an unspecified order
CleanLinks(vis, ls) == {addr \in ls : KeepLink(addr)} \ vis

\* ----------------------------------------------------------- the crawler
Link(addr, depth) == [addr |-> addr, depth |-> depth]

\* max_visits is an integer or math.inf
Finite(n) == [finite |-> TRUE, n |-> n]
MathInf == [finite |-> FALSE, n |-> 0]

\* all orders in which a set can be listed
RECURSIVE Orders(_)
Orders(S) ==
  IF S = {} THEN {<<>>}
  ELSE UNION {{<<x>> \o o : o \in Orders(S \ {x})} : x \in S}

\* [Link(el, depth + 1) for el in nodes]
RECURSIVE Children(_, _)
Children(nodes, depth) ==
  IF nodes = <<>> THEN <<>>
  ELSE <<Link(Head(nodes), depth + 1)>> \o Children(Tail(nodes), depth)

\* _bfs_step: queue + nodes
BfsStep(queue, nodes, depth) == queue \o Children(nodes, depth)

\* _dfs_step: nodes + stack
DfsStep(stack, nodes, depth) == Children(nodes, depth) \o stack

\* the keys of _funcs
StrategyNames == {"dfs", "bfs"}

\* self._do_strategy = _funcs[self.strategy]
DoStrategy(name, ls, nodes, depth) ==
  IF name = "bfs" THEN BfsStep(ls, nodes, depth) ELSE DfsStep(ls, nodes, depth)

\* a loop that reads the last element without removing it
PopPeek(ls) == [node |-> ls[Len(ls)], rest |-> ls]

\* list.pop(): removes and returns the last element
Pop(ls) == [node |-> ls[Len(ls)], rest |-> SubSeq(ls, 1, Len(ls) - 1)]

\* a loop without the visited check
AlreadyVisitedNever(addr, vis) == FALSE

\* node.addr in self._visited
AlreadyVisited(addr, vis) == addr \in vis

\* the limit compared one too late
LimitReachedOffByOne(vis, mv) == mv.finite /\ Cardinality(vis) = mv.n + 1

\* the limit tested with > instead of ==
LimitReachedGreater(vis, mv) == mv.finite /\ Cardinality(vis) > mv.n

\* a loop without the limit test
LimitReachedNever(vis, mv) == FALSE

\* len(self._visited) == self.max_visits
LimitReached(vis, mv) == mv.finite /\ Cardinality(vis) = mv.n

\* the depth test with <= instead of <
BelowMaxDepthInclusive(depth, md) == depth <= md

\* node.depth < self.max_depth
BelowMaxDepth(depth, md) == depth < md

\* validators.url(addr): an absolute http(s) URL with a host
ValidUrl(addr) ==
  \E scheme \in {HTTP, HTTPS} :
    /\ StartsWith(addr, scheme \o SCHEME_SEP)
    /\ Len(addr) > Len(scheme \o SCHEME_SEP)

\* a _fetch_page without the validators.url test
FetchOutcomesUnchecked(addr) == {"error", "ok"}

\* the outcomes of _fetch_page(link): "invalid" (None, no request),
\* "error" (request made, not res.ok, None), "ok" (a soup)
FetchOutcomes(addr) ==
  IF ~ValidUrl(addr) THEN {"invalid"} ELSE {"error", "ok"}

\* a loop that gives up only on an invalid address
FetchFailedOnlyInvalid(out) == out = "invalid"

\* (soup := self._fetch_page(node)) is None
FetchFailed(out) == out # "ok"

\* _fetch_links(soup): the hrefs of the page
FetchLinks(w, addr) == w[addr]

\* _fetch_articles(soup): one text per <article>; the home page has none
FetchArticles(addr) == IF addr = Root THEN <<>> ELSE <<"text">>

\* nx.Graph.add_node
AddNode(g, a) == [g EXCEPT !.nodes = @ \cup {a}]

\* the edges drawn from the root instead of the current page
AddEdgesFromRoot(g, a, ls) ==
  [nodes |-> g.nodes \cup (IF ls = {} THEN {} ELSE {root} \cup ls),
   edges |-> g.edges \cup {{root, l} : l \in ls}]

\* nx.Graph.add_edge for every link of ls (add_edge also adds both ends)
AddEdges(g, a, ls) ==
  [nodes |-> g.nodes \cup (IF ls = {} THEN {} ELSE {a} \cup ls),
   edges |-> g.edges \cup {{a, l} : l \in ls}]

EmptyGraph == [nodes |-> {}, edges |-> {}]

\* ------------------------------------------------------------- the webs
NoLinks == [a \in Universe |-> {}]
Site == {Root, PageB, PageC}

\* every link graph over the three pages of Site
SiteWebs ==
  {[a \in Universe |-> IF a \in Site THEN g[a] ELSE {}] :
     g \in [Site -> SUBSET Site]}

\* A -> [B, C], B -> [D], C and D without links
ScenarioWeb ==
  [NoLinks EXCEPT ![Root] = {PageB, PageC}, ![PageB] = {PageD}]

\* a page with hrefs of every kind
MixedWeb ==
  [NoLinks EXCEPT ![Root] = {PageB, NewsX, DocPdf, XPdf, ContentX, OtherX,
                             EvilHost, Relative, Misspelt, Empty},
                  ![PageB] = {NewsX, Root, PageB},
                  ![EvilHost] = {PageC},
                  ![NewsX] = {PageC, PageB}]

Webs == SiteWebs \cup {ScenarioWeb, MixedWeb}

\* ------------------------------------------------------------ __init__
\* the fields as __init__ leaves them (lines 53-60)
Constructed(r, md, mv, st, w) ==
  /\ root = r /\ max_depth = md /\ max_visits = mv /\ strategy = st
  /\ web = w
  /\ links = <<Link(r, 0)>>
  /\ visited = {}
  /\ articles = <<>>
  /\ topology = EmptyGraph
  /\ accepted = <<>>
  /\ fetch_log = <<>>
  /\ returns = 0

FilterIdle == f_visited = {} /\ f_links = {} /\ f_result = {}
TextIdle == t_text = <<>> /\ t_result = <<>>

\* a Crawler constructed with a max_depth >= 0, a max_visits >= 1 or
\* math.inf, and one of the two strategies
Init ==
  /\ pc = "ready"
  /\ \E md \in 0..DepthBound,
        mv \in {Finite(n) : n \in 1..VisitsBound} \cup {MathInf},
        st \in StrategyNames,
        w \in Webs :
       Constructed(Root, md, mv, st, w)
  /\ FilterIdle
  /\ TextIdle

\* the call Crawler(root, max_depth, max_visits, strategy) with any
\* arguments, before __init__ ran
CtorWebs == {ScenarioWeb, MixedWeb}
InitCtor ==
  /\ pc = "new"
  /\ root = Root
  /\ max_depth \in -1..DepthBound
  /\ max_visits \in {Finite(n) : n \in -1..VisitsBound} \cup {MathInf}
  /\ strategy \in StrategyNames \cup {"random"}
  /\ web \in CtorWebs
  /\ links = <<>> /\ visited = {} /\ articles = <<>>
  /\ topology = EmptyGraph /\ accepted = <<>> /\ fetch_log = <<>>
  /\ returns = 0
  /\ FilterIdle
  /\ TextIdle

\* __init__: stores its arguments, seeds the frontier, and looks the
\* strategy up in _funcs (a KeyError for a name that is not a key)
Construct ==
  /\ pc = "new"
  /\ IF strategy \in StrategyNames
       THEN /\ pc' = "ready"
            /\ links' = <<Link(root, 0)>>
            /\ visited' = {}
            /\ articles' = <<>>
            /\ topology' = EmptyGraph
       ELSE /\ pc' = "config_error"
            /\ UNCHANGED <<links, visited, articles, topology>>
  /\ UNCHANGED <<root, max_depth, max_visits, strategy, web,
                 accepted, fetch_log, returns, harnessVars>>

\* ------------------------------------------------ _clean_links, directly
FilterVisited == {Root, NewsX}
\* a call _clean_links(_visited, links) on arbitrary arguments
InitFilter ==
  /\ pc = "filter_call"
  /\ Constructed(Root, 0, MathInf, "bfs", NoLinks)
  /\ f_links \in SUBSET Universe
  /\ f_visited \in SUBSET FilterVisited
  /\ f_result = {}
  /\ TextIdle

CallCleanLinks ==
  /\ pc = "filter_call"
  /\ f_result' = CleanLinks(f_visited, f_links)
  /\ pc' = "filter_done"
  /\ UNCHANGED <<crawlerVars, returns, f_visited, f_links, textVars>>

\* -------------------------------------------- remove_nonbreaking, directly
\* a call remove_nonbreaking(text) on an arbitrary text
InitText ==
  /\ pc = "text_call"
  /\ Constructed(Root, 0, MathInf, "bfs", NoLinks)
  /\ FilterIdle
  /\ t_text \in UNION {[1..n -> TextChars] : n \in 0..TextBound}
  /\ t_result = <<>>

CallRemoveNonbreaking ==
  /\ pc = "text_call"
  /\ t_result' = RemoveNonbreaking(t_text)
  /\ pc' = "text_done"
  /\ UNCHANGED <<crawlerVars, returns, filterVars, t_text>>

\* ---------------------------------------------------- any root address
\* a Crawler constructed like in Init, on any address as root
InitAnyRoot ==
  /\ pc = "ready"
  /\ \E r \in Universe,
        md \in 0..DepthBound,
        mv \in {Finite(n) : n \in 1..VisitsBound} \cup {MathInf},
        st \in StrategyNames,
        w \in CtorWebs :
       Constructed(r, md, mv, st, w)
  /\ FilterIdle
  /\ TextIdle

\* ------------------------------------------------- crawl(), per iteration
Active == pc \in {"ready", "running"}

\* while self._links != []: the loop ends, crawl() returns
Exhausted ==
  /\ Active
  /\ links = <<>>
  /\ pc' = "exhausted"
  /\ returns' = returns + 1
  /\ UNCHANGED <<crawlerVars, harnessVars>>

\* the popped address is already visited: continue
PopDuplicate ==
  /\ Active
  /\ links # <<>>
  /\ LET p == Pop(links) IN
       /\ AlreadyVisited(p.node.addr, visited)
       /\ links' = p.rest
       /\ topology' = AddNode(topology, p.node.addr)
       /\ pc' = "running"
  /\ UNCHANGED <<root, max_depth, max_visits, strategy, web, visited,
                 articles, accepted, fetch_log, returns, harnessVars>>

\* the popped address is marked and the visit limit is hit: break
PopLimit ==
  /\ Active
  /\ links # <<>>
  /\ LET p == Pop(links) IN
       /\ ~AlreadyVisited(p.node.addr, visited)
       /\ LimitReached(visited \cup {p.node.addr}, max_visits)
       /\ links' = p.rest
       /\ topology' = AddNode(topology, p.node.addr)
       /\ visited' = visited \cup {p.node.addr}
       /\ accepted' = Append(accepted, p.node)
       /\ pc' = "visit_limit"
  /\ returns' = returns + 1
  /\ UNCHANGED <<root, max_depth, max_visits, strategy, web,
                 articles, fetch_log, harnessVars>>

\* the page is not fetched (_fetch_page returns None): continue
PopFetchFail ==
  /\ Active
  /\ links # <<>>
  /\ LET p == Pop(links) IN
       /\ ~AlreadyVisited(p.node.addr, visited)
       /\ ~LimitReached(visited \cup {p.node.addr}, max_visits)
       /\ \E out \in FetchOutcomes(p.node.addr) :
            /\ FetchFailed(out)
            /\ fetch_log' = Append(fetch_log, [addr |-> p.node.addr, out |-> out])
       /\ links' = p.rest
       /\ topology' = AddNode(topology, p.node.addr)
       /\ visited' = visited \cup {p.node.addr}
       /\ accepted' = Append(accepted, p.node)
       /\ pc' = "running"
  /\ UNCHANGED <<root, max_depth, max_visits, strategy, web,
                 articles, returns, harnessVars>>

\* the page is fetched and stored, the depth limit forbids the expansion
PopStore ==
  /\ Active
  /\ links # <<>>
  /\ LET p == Pop(links) IN
       /\ ~AlreadyVisited(p.node.addr, visited)
       /\ ~LimitReached(visited \cup {p.node.addr}, max_visits)
       /\ ~BelowMaxDepth(p.node.depth, max_depth)
       /\ \E out \in FetchOutcomes(p.node.addr) :
            /\ ~FetchFailed(out)
            /\ fetch_log' = Append(fetch_log, [addr |-> p.node.addr, out |-> out])
       /\ articles' = (p.node.addr :> FetchArticles(p.node.addr)) @@ articles
       /\ links' = p.rest
       /\ topology' = AddNode(topology, p.node.addr)
       /\ visited' = visited \cup {p.node.addr}
       /\ accepted' = Append(accepted, p.node)
       /\ pc' = "running"
  /\ UNCHANGED <<root, max_depth, max_visits, strategy, web, returns,
                 harnessVars>>

\* the page is fetched, stored and expanded
PopExpand ==
  /\ Active
  /\ links # <<>>
  /\ LET p == Pop(links)
         vis == visited \cup {p.node.addr}
         neigh == CleanLinks(vis, FetchLinks(web, p.node.addr))
     IN
       /\ ~AlreadyVisited(p.node.addr, visited)
       /\ ~LimitReached(vis, max_visits)
       /\ BelowMaxDepth(p.node.depth, max_depth)
       /\ \E out \in FetchOutcomes(p.node.addr) :
            /\ ~FetchFailed(out)
            /\ fetch_log' = Append(fetch_log, [addr |-> p.node.addr, out |-> out])
       /\ articles' = (p.node.addr :> FetchArticles(p.node.addr)) @@ articles
       /\ topology' = AddEdges(AddNode(topology, p.node.addr), p.node.addr, neigh)
       /\ \E neigh_links \in Orders(neigh) :
            links' = DoStrategy(strategy, p.rest, neigh_links, p.node.depth)
       /\ visited' = vis
       /\ accepted' = Append(accepted, p.node)
       /\ pc' = "running"
  /\ UNCHANGED <<root, max_depth, max_visits, strategy, web, returns,
                 harnessVars>>

Next ==
  \/ Exhausted
  \/ PopDuplicate
  \/ PopLimit
  \/ PopFetchFail
  \/ PopStore
  \/ PopExpand

Spec == Init /\ [][Next]_vars

\* crawl() is called again on a Crawler whose crawl() has returned
CrawlAgain ==
  /\ pc \in {"exhausted", "visit_limit"}
  /\ returns < CallsBound
  /\ pc' = "running"
  /\ UNCHANGED <<crawlerVars, returns, harnessVars>>

\* crawl() called up to CallsBound times
NextAgain == Next \/ CrawlAgain
SpecAgain == Init /\ [][NextAgain]_vars

\* a run from any root address
SpecAnyRoot == InitAnyRoot /\ [][Next]_vars

\* one call of remove_nonbreaking
NextText == CallRemoveNonbreaking
SpecText == InitText /\ [][NextText]_vars

\* construction with arbitrary arguments, then crawl()
NextCtor == Construct \/ Next
SpecCtor == InitCtor /\ [][NextCtor]_vars

\* one call of _clean_links
NextFilter == CallCleanLinks
SpecFilter == InitFilter /\ [][NextFilter]_vars

\* the sequential loop of crawl() keeps iterating until it returns
SpecFair == Spec /\ WF_vars(Next)

\* ================================================================ claims
Terminal == pc \in {"exhausted", "visit_limit"}
AcceptedAddrs == [i \in 1..Len(accepted) |-> accepted[i].addr]
FetchedAddrs == {fetch_log[i].addr : i \in 1..Len(fetch_log)}
AllFetchesOk == \A i \in 1..Len(fetch_log) : fetch_log[i].out = "ok"

C2_AtMostOnceFetch ==
  \A i, j \in 1..Len(fetch_log) :
    i # j => fetch_log[i].addr # fetch_log[j].addr

\* an address discovered from two parents whose fetch failed, after both
\* of its frontier entries were popped
C2_Witness ==
  /\ pc = "exhausted"
  /\ \E i \in 1..Len(fetch_log) :
       /\ fetch_log[i].out = "error"
       /\ fetch_log[i].addr # Root
       /\ {Root, fetch_log[i].addr} \in topology.edges
       /\ {PageB, fetch_log[i].addr} \in topology.edges
       /\ fetch_log[i].addr # PageB

\* C3: from one iteration to the next the visited set only grows, and for
\* a finite max_visits >= 1 its size never exceeds max_visits.
C3_VisitedMonotonicBounded ==
  [][ /\ visited \subseteq visited'
      /\ (max_visits.finite /\ max_visits.n >= 1) =>
            Cardinality(visited') <= max_visits.n ]_vars

\* a run stopped by the limit with three visited addresses
C3_Witness ==
  /\ pc = "visit_limit"
  /\ max_visits = Finite(3)
  /\ Cardinality(visited) = 3

\* C4: with strategy "bfs", of two accepted Links with depths d1 < d2 the
\* one of depth d1 is accepted first.
C4_BfsDepthOrder ==
  strategy = "bfs" =>
    \A i, j \in 1..Len(accepted) :
      i < j => accepted[i].depth <= accepted[j].depth

\* C5: with strategy "dfs", after an expansion the Links that were pending
\* before it are popped only after all the children it added: the pending
\* Links keep the positions that are popped last.
C5_DfsChildrenFirst ==
  [][ (strategy = "dfs" /\ PopExpand) =>
        LET rest == Pop(links).rest IN
          /\ Len(links') >= Len(rest)
          /\ \A k \in 1..Len(rest) :
               Pop(SubSeq(links', 1, Len(links') - k + 1)).node
                 = Pop(SubSeq(rest, 1, Len(rest) - k + 1)).node
          /\ \A k \in 1..(Len(links') - Len(rest)) :
               Pop(SubSeq(links', 1, Len(links') - k + 1)).node.depth
                 = Pop(links).node.depth + 1 ]_vars

\* ------------------------------------- what an address is, for the claims
\* the index of the first occurrence of pat in s, 0 if there is none
FirstIndex(s, pat) ==
  IF Contains(s, pat)
    THEN CHOOSE i \in 1..(Len(s) - Len(pat) + 1) :
           /\ SubSeq(s, i, i + Len(pat) - 1) = pat
           /\ \A j \in 1..(i - 1) : SubSeq(s, j, j + Len(pat) - 1) # pat
    ELSE 0

\* the length of the longest prefix of s without a character of stops
RECURSIVE PrefixLen(_, _)
PrefixLen(s, stops) ==
  IF s = <<>> \/ Head(s) \in stops THEN 0 ELSE 1 + PrefixLen(Tail(s), stops)

\* what follows "://"
AfterScheme(a) == SubSeq(a, FirstIndex(a, SCHEME_SEP) + Len(SCHEME_SEP), Len(a))

\* the host of scheme://host/path?query#fragment
HostOf(a) == SubSeq(AfterScheme(a), 1, PrefixLen(AfterScheme(a), {"/", "?", "#"}))

\* the path of scheme://host/path?query#fragment
PathOf(a) ==
  LET r == SubSeq(AfterScheme(a), Len(HostOf(a)) + 1, Len(AfterScheme(a)))
  IN SubSeq(r, 1, PrefixLen(r, {"?", "#"}))

InDomainScope(a) == Contains(a, SCHEME_SEP) /\ HostOf(a) = UNIPA_HOST
UnderExcludedPath(a) ==
  StartsWith(PathOf(a), <<"/",".","c","o","n","t","e","n","t">>)
HasExcludedExtension(a) == EndsWith(PathOf(a), <<".","p","d","f">>)

\* C6: whatever the discovered set and the visited set, _clean_links
\* returns no address outside the domain www.unipa.it, none under the
\* path prefix /.content and none with the extension pdf.
C6_FilterExclusion ==
  pc = "filter_done" =>
    \A a \in f_result :
      /\ InDomainScope(a)
      /\ ~UnderExcludedPath(a)
      /\ ~HasExcludedExtension(a)

\* C7: _clean_links returns exactly the discovered addresses that are in
\* the domain, match no excluded path or extension and are not visited.
C7_FilterExact ==
  pc = "filter_done" =>
    f_result = {a \in f_links :
                  /\ InDomainScope(a)
                  /\ ~UnderExcludedPath(a)
                  /\ ~HasExcludedExtension(a)
                  /\ a \notin f_visited}

\* Scenario A: root A, max_depth 1, no visit limit, "bfs", A -> [B, C],
\* B -> [D], every fetch succeeds
ScenarioA ==
  /\ web = ScenarioWeb /\ root = Root
  /\ max_depth = 1 /\ max_visits = MathInf /\ strategy = "bfs"
  /\ AllFetchesOk

\* C8 as stated: in Scenario A the accepted addresses are A, B, C, D in
\* this order, and D is fetched and has an entry in _articles.
C8_ScenarioA_Stated ==
  (ScenarioA /\ Terminal) =>
    /\ AcceptedAddrs = <<Root, PageB, PageC, PageD>>
    /\ PageD \in FetchedAddrs
    /\ PageD \in DOMAIN articles

\* C8 amended: in Scenario A the run accepts A and then B and C in either
\* order and stops with the frontier empty; B, at depth 1 = max_depth, is
\* not expanded, so D is never discovered, accepted, fetched or stored,
\* and _articles has exactly the entries A, B, C.
C8_ScenarioA ==
  (ScenarioA /\ Terminal) =>
    /\ pc = "exhausted"
    /\ AcceptedAddrs \in {<<Root, PageB, PageC>>, <<Root, PageC, PageB>>}
    /\ PageD \notin visited
    /\ PageD \notin FetchedAddrs
    /\ PageD \notin topology.nodes
    /\ DOMAIN articles = {Root, PageB, PageC}

\* the end of the run of Scenario A
C8_Witness == ScenarioA /\ Terminal /\ Len(accepted) = 3

\* Scenario B: Scenario A with max_visits = 2
ScenarioB ==
  /\ web = ScenarioWeb /\ root = Root
  /\ max_depth = 1 /\ max_visits = Finite(2) /\ strategy = "bfs"
  /\ AllFetchesOk

\* C9 as stated: in Scenario B the run stops after accepting exactly A and
\* one of B, C, at the visit limit, with exactly 2 entries in _articles.
C9_ScenarioB_Stated ==
  (ScenarioB /\ Terminal) =>
    /\ pc = "visit_limit"
    /\ Len(accepted) = 2
    /\ AcceptedAddrs[1] = Root /\ AcceptedAddrs[2] \in {PageB, PageC}
    /\ Cardinality(DOMAIN articles) = 2

\* C9 amended: in Scenario B the run stops after accepting exactly A and
\* one of B, C, at the visit limit; the second address is not fetched, so
\* _articles has exactly 1 entry, the one of A.
C9_ScenarioB ==
  (ScenarioB /\ Terminal) =>
    /\ pc = "visit_limit"
    /\ Len(accepted) = 2
    /\ AcceptedAddrs[1] = Root /\ AcceptedAddrs[2] \in {PageB, PageC}
    /\ FetchedAddrs = {Root}
    /\ DOMAIN articles = {Root}

\* the end of the run of Scenario B
C9_Witness == ScenarioB /\ Terminal /\ Cardinality(visited) = 2

\* C10: a Crawler constructed with an unknown strategy name, a negative
\* max_depth or a negative max_visits raises in __init__, so that no
\* crawler with such a configuration exists.
C10_ConfigErrorsFatal ==
  ( /\ pc # "new"
    /\ \/ strategy \notin StrategyNames
       \/ max_depth < 0
       \/ max_visits.finite /\ max_visits.n < 0 )
  => pc = "config_error"

\* ------------------------------------------------ steps, for the claims
\* the Link the next iteration pops, and the frontier without it
NextNode == links[Len(links)]
Remaining == SubSeq(links, 1, Len(links) - 1)
\* the record the step appended to fetch_log, if it fetched
Fetched == fetch_log' # fetch_log
LastFetch == fetch_log'[Len(fetch_log')]

\* an absolute http(s) URL with a host
WellFormedAbsolute(a) ==
  /\ Contains(a, SCHEME_SEP)
  /\ SubSeq(a, 1, FirstIndex(a, SCHEME_SEP) - 1) \in {HTTP, HTTPS}
  /\ HostOf(a) # <<>>

\* C11: for an address that is not a well-formed absolute URL _fetch_page
\* returns None without a request (outcome "invalid"); in crawl() the Link
\* is abandoned (no article, no expansion) and the loop goes on.
C11_InvalidAddressRejected ==
  /\ [](\A i \in 1..Len(fetch_log) :
          ~WellFormedAbsolute(fetch_log[i].addr) =>
             /\ fetch_log[i].out = "invalid"
             /\ fetch_log[i].addr \in visited
             /\ fetch_log[i].addr \notin DOMAIN articles)
  /\ [][ (Fetched /\ ~WellFormedAbsolute(LastFetch.addr)) =>
            /\ pc' = "running"
            /\ links' = Remaining
            /\ articles' = articles
            /\ topology'.edges = topology.edges ]_vars

\* the misspelt address was given up and a later Link was accepted
C11_Witness ==
  \E i \in 1..Len(accepted) :
    /\ accepted[i].addr = Misspelt
    /\ i < Len(accepted)
    /\ \E k \in 1..Len(fetch_log) :
         fetch_log[k] = [addr |-> Misspelt, out |-> "invalid"]

\* the text with every maximal run of U+00A0 replaced by one space,
\* computed from the end of the text
RECURSIVE CollapseRuns(_)
CollapseRuns(t) ==
  IF t = <<>> THEN <<>>
  ELSE LET front == SubSeq(t, 1, Len(t) - 1)
           last == t[Len(t)]
       IN IF last # NBSP THEN Append(CollapseRuns(front), last)
          ELSE IF front # <<>> /\ front[Len(front)] = NBSP
            THEN CollapseRuns(front)
            ELSE Append(CollapseRuns(front), " ")

\* the positions at which a maximal run of U+00A0 starts
RunStarts(t) ==
  {i \in 1..Len(t) : t[i] = NBSP /\ (i = 1 \/ t[i - 1] # NBSP)}

\* C12: remove_nonbreaking(text) has no U+00A0, has one space in place of
\* every maximal run of U+00A0 and keeps all other characters in order.
C12_RemoveNonbreaking ==
  pc = "text_done" =>
    /\ \A i \in 1..Len(t_result) : t_result[i] # NBSP
    /\ t_result = CollapseRuns(t_text)
    /\ Len(t_result) =
         Len(t_text) - Cardinality({i \in 1..Len(t_text) : t_text[i] = NBSP})
                     + Cardinality(RunStarts(t_text))

\* a text with a run of two U+00A0 between two letters
C12_Witness ==
  /\ pc = "text_done"
  /\ t_text = <<"a", NBSP, NBSP, "a">>
  /\ t_result = <<"a", " ", "a">>

\* the next iteration marks an address that brings |visited| to max_visits
LimitStep ==
  /\ pc \in {"ready", "running"}
  /\ links # <<>>
  /\ NextNode.addr \notin visited
  /\ max_visits.finite
  /\ Cardinality(visited \cup {NextNode.addr}) = max_visits.n

\* C13: the iteration that brings |visited| to max_visits stops the run at
\* once, without fetching, storing or expanding that address; a run stopped
\* by the limit has accepted exactly max_visits Links and made at most
\* max_visits - 1 fetches.
C13_LimitBeforeFetch ==
  /\ [](pc = "visit_limit" =>
          /\ Len(accepted) = max_visits.n
          /\ Len(fetch_log) <= max_visits.n - 1
          /\ accepted[Len(accepted)].addr \notin FetchedAddrs
          /\ accepted[Len(accepted)].addr \notin DOMAIN articles)
  /\ [][ LimitStep =>
            /\ pc' = "visit_limit"
            /\ ~Fetched
            /\ articles' = articles
            /\ topology'.edges = topology.edges
            /\ links' = Remaining ]_vars

\* a run stopped at the second address, with Links still pending
C13_Witness ==
  /\ pc = "visit_limit"
  /\ Len(accepted) = 2
  /\ Len(fetch_log) = 1
  /\ links # <<>>

Elements(q) == {q[i] : i \in 1..Len(q)}

\* C15: a fetched Link at depth max_depth gets its entry in _articles and
\* adds neither edges nor Links; a fetched Link at a depth d < max_depth
\* adds its filtered children at depth d + 1; every Link in the frontier
\* has a depth in 0..max_depth.
C15_DepthGatesExpansion ==
  /\ [](\A i \in 1..Len(links) : links[i].depth \in 0..max_depth)
  /\ [][ (Fetched /\ LastFetch.out = "ok") =>
            /\ NextNode.addr \in DOMAIN articles'
            /\ IF NextNode.depth >= max_depth
                 THEN /\ topology'.edges = topology.edges
                      /\ links' = Remaining
                 ELSE LET kids == {[addr |-> c, depth |-> NextNode.depth + 1] :
                                     c \in CleanLinks(visited', web[NextNode.addr])}
                      IN /\ Len(links') = Len(Remaining) + Cardinality(kids)
                         /\ Elements(links') = Elements(Remaining) \cup kids ]_vars

\* a page at depth max_depth >= 1 was stored
C15_Witness ==
  /\ max_depth >= 1
  /\ \E i \in 1..Len(accepted) :
       /\ accepted[i].depth = max_depth
       /\ accepted[i].addr \in DOMAIN articles
       /\ web[accepted[i].addr] # {}

\* C16: an iteration that pops an address already in _visited only removes
\* the Link from the frontier: _visited, the nodes and edges of the
\* topology and _articles stay as they are, and nothing is fetched.
C16_DuplicatePopNoOp ==
  [][ (pc \in {"ready", "running"} /\ links # <<>>
        /\ NextNode.addr \in visited) =>
        /\ links' = Remaining
        /\ visited' = visited
        /\ topology' = topology
        /\ articles' = articles
        /\ accepted' = accepted
        /\ ~Fetched ]_vars

\* PageC was enqueued by two parents and the frontier was drained, so one
\* of its two Links was popped as a duplicate
C16_Witness ==
  /\ pc = "exhausted"
  /\ {Root, PageC} \in topology.edges
  /\ {PageB, PageC} \in topology.edges
  /\ PageC \in DOMAIN articles
  /\ Len(accepted) = 3

\* C17: the keys of _articles are exactly the accepted addresses whose
\* fetch succeeded (also when the page has no article), all of them
\* visited, and an entry is never written again, changed or removed.
C17_ArticlesWriteOnce ==
  /\ [](/\ DOMAIN articles =
             {fetch_log[i].addr : i \in {k \in 1..Len(fetch_log) :
                                           fetch_log[k].out = "ok"}}
        /\ DOMAIN articles \subseteq visited
        /\ DOMAIN articles \subseteq Elements(AcceptedAddrs))
  /\ [][ \A a \in DOMAIN articles :
            /\ a \in DOMAIN articles'
            /\ articles'[a] = articles[a]
            /\ ~(Fetched /\ LastFetch.addr = a) ]_vars

\* the home page, without articles, has its entry; a page whose fetch
\* failed has none
C17_Witness ==
  /\ Root \in DOMAIN articles
  /\ articles[Root] = <<>>
  /\ Cardinality(DOMAIN articles) >= 2
  /\ \E k \in 1..Len(fetch_log) :
       fetch_log[k].out # "ok" /\ fetch_log[k].addr \notin DOMAIN articles

\* the accepted Links that were fetched and expanded
Expanded ==
  {i \in 1..Len(accepted) :
     /\ accepted[i].depth < max_depth
     /\ \E k \in 1..Len(fetch_log) :
          fetch_log[k] = [addr |-> accepted[i].addr, out |-> "ok"]}

\* the hrefs of the i-th accepted page that are kept by the filter and
\* were not visited when the page was expanded
Survivors(i) ==
  {c \in web[accepted[i].addr] : KeepLink(c)}
    \ {accepted[j].addr : j \in 1..i}

\* C18: a popped Link becomes a node only when it is accepted, never when
\* it is rejected as a duplicate; the edges are exactly the pairs {p, c}
\* with p accepted, fetched and at a depth < max_depth and c kept by the
\* filter in the expansion of p.
C18_TopologyBookkeeping ==
  /\ [](/\ topology.edges =
             UNION {{{accepted[i].addr, c} : c \in Survivors(i)} : i \in Expanded}
        /\ topology.nodes = Elements(AcceptedAddrs) \cup UNION topology.edges)
  /\ [][ (pc \in {"ready", "running"} /\ links # <<>>) =>
            /\ NextNode.addr \in visited => topology'.nodes = topology.nodes
            /\ NextNode.addr \in topology'.nodes \ topology.nodes =>
                 accepted' = Append(accepted, NextNode) ]_vars

\* the root and PageB were expanded, PageC was reached from both
C18_Witness ==
  /\ pc = "exhausted"
  /\ topology.edges = {{Root, PageB}, {Root, PageC}, {PageB, PageC}}
  /\ topology.nodes = {Root, PageB, PageC}
  /\ Expanded # {}

\* C19: once crawl() has returned, further crawl() calls accept no address
\* and fetch nothing: _visited, _articles and the topology stay as they
\* are, and |visited| stays within max_visits.
C19_TerminalAbsorbing ==
  [][ returns >= 1 =>
        /\ visited' = visited
        /\ articles' = articles
        /\ topology' = topology
        /\ accepted' = accepted
        /\ ~Fetched
        /\ max_visits.finite => Cardinality(visited') <= max_visits.n ]_vars

\* C20: the topology has no edge from an address to itself, and every edge
\* added in the expansion of p joins p to an address that was not visited
\* at that moment.
C20_NoSelfLoopNoVisitedTarget ==
  /\ [](\A e \in topology.edges : Cardinality(e) = 2)
  /\ [][ \A e \in topology'.edges \ topology.edges :
            \E c \in e :
              /\ e = {NextNode.addr, c}
              /\ c # NextNode.addr
              /\ c \notin visited' ]_vars

\* pages that link to themselves and back to the root were expanded
C20_Witness ==
  /\ Root \in web[Root]
  /\ Root \in web[PageB]
  /\ PageB \in web[PageB]
  /\ {Root, PageB} \subseteq DOMAIN articles
  /\ max_depth = 2
  /\ topology.edges # {}
====
